---- MODULE Spec2Model ----
(***************************************************************************)
(* Model of src/gui.py, the DC/DC test dashboard: two instrument handles   *)
(* (oscilloscope, power supply), four numeric form fields, the safety      *)
(* interlocks of run_scope_sequence and set_psu_params, the master         *)
(* sequence, the emergency stop, and the session log.                      *)
(*                                                                         *)
(* A form field holds text, modelled as a sequence of characters: a        *)
(* one-character string, or, for a character a TLA+ string cannot hold,    *)
(* its code point written "U+hhhh" (four to six upper-case hex digits:     *)
(* "U+000B", "U+00A0", "U+0663").  float() is modelled by ParseFloat,      *)
(* which reads the text the way Python does.  A float is a record          *)
(*     [kind, neg, mant, exp]                                              *)
(* kind = "fin": the double nearest to (-1)^neg * mant * 10^exp, mant the  *)
(*               sequence of decimal digits read, without zeros at either  *)
(*               end; kind = "inf": +/- infinity; kind = "nan": not a      *)
(* number; kind = "err": float() raised ValueError.                        *)
(***************************************************************************)
EXTENDS Integers, Sequences, FiniteSets, TLC

(***************************************************************************)
(* float(text): src/gui.py lines 119, 121, 151, 152, 166, 167              *)
(***************************************************************************)
Digits == <<"0", "1", "2", "3", "4", "5", "6", "7", "8", "9">>

\* The decimal digits of the other scripts (Unicode category Nd), which
\* float() reads like ASCII digits: one row per script, the digits 0 to 9
\* in order.
UnicodeDigits == <<
    <<"U+0660", "U+0661", "U+0662", "U+0663", "U+0664", "U+0665", "U+0666", "U+0667", "U+0668", "U+0669">>,
    <<"U+06F0", "U+06F1", "U+06F2", "U+06F3", "U+06F4", "U+06F5", "U+06F6", "U+06F7", "U+06F8", "U+06F9">>,
    <<"U+07C0", "U+07C1", "U+07C2", "U+07C3", "U+07C4", "U+07C5", "U+07C6", "U+07C7", "U+07C8", "U+07C9">>,
    <<"U+0966", "U+0967", "U+0968", "U+0969", "U+096A", "U+096B", "U+096C", "U+096D", "U+096E", "U+096F">>,
    <<"U+09E6", "U+09E7", "U+09E8", "U+09E9", "U+09EA", "U+09EB", "U+09EC", "U+09ED", "U+09EE", "U+09EF">>,
    <<"U+0A66", "U+0A67", "U+0A68", "U+0A69", "U+0A6A", "U+0A6B", "U+0A6C", "U+0A6D", "U+0A6E", "U+0A6F">>,
    <<"U+0AE6", "U+0AE7", "U+0AE8", "U+0AE9", "U+0AEA", "U+0AEB", "U+0AEC", "U+0AED", "U+0AEE", "U+0AEF">>,
    <<"U+0B66", "U+0B67", "U+0B68", "U+0B69", "U+0B6A", "U+0B6B", "U+0B6C", "U+0B6D", "U+0B6E", "U+0B6F">>,
    <<"U+0BE6", "U+0BE7", "U+0BE8", "U+0BE9", "U+0BEA", "U+0BEB", "U+0BEC", "U+0BED", "U+0BEE", "U+0BEF">>,
    <<"U+0C66", "U+0C67", "U+0C68", "U+0C69", "U+0C6A", "U+0C6B", "U+0C6C", "U+0C6D", "U+0C6E", "U+0C6F">>,
    <<"U+0CE6", "U+0CE7", "U+0CE8", "U+0CE9", "U+0CEA", "U+0CEB", "U+0CEC", "U+0CED", "U+0CEE", "U+0CEF">>,
    <<"U+0D66", "U+0D67", "U+0D68", "U+0D69", "U+0D6A", "U+0D6B", "U+0D6C", "U+0D6D", "U+0D6E", "U+0D6F">>,
    <<"U+0DE6", "U+0DE7", "U+0DE8", "U+0DE9", "U+0DEA", "U+0DEB", "U+0DEC", "U+0DED", "U+0DEE", "U+0DEF">>,
    <<"U+0E50", "U+0E51", "U+0E52", "U+0E53", "U+0E54", "U+0E55", "U+0E56", "U+0E57", "U+0E58", "U+0E59">>,
    <<"U+0ED0", "U+0ED1", "U+0ED2", "U+0ED3", "U+0ED4", "U+0ED5", "U+0ED6", "U+0ED7", "U+0ED8", "U+0ED9">>,
    <<"U+0F20", "U+0F21", "U+0F22", "U+0F23", "U+0F24", "U+0F25", "U+0F26", "U+0F27", "U+0F28", "U+0F29">>,
    <<"U+1040", "U+1041", "U+1042", "U+1043", "U+1044", "U+1045", "U+1046", "U+1047", "U+1048", "U+1049">>,
    <<"U+1090", "U+1091", "U+1092", "U+1093", "U+1094", "U+1095", "U+1096", "U+1097", "U+1098", "U+1099">>,
    <<"U+17E0", "U+17E1", "U+17E2", "U+17E3", "U+17E4", "U+17E5", "U+17E6", "U+17E7", "U+17E8", "U+17E9">>,
    <<"U+1810", "U+1811", "U+1812", "U+1813", "U+1814", "U+1815", "U+1816", "U+1817", "U+1818", "U+1819">>,
    <<"U+1946", "U+1947", "U+1948", "U+1949", "U+194A", "U+194B", "U+194C", "U+194D", "U+194E", "U+194F">>,
    <<"U+19D0", "U+19D1", "U+19D2", "U+19D3", "U+19D4", "U+19D5", "U+19D6", "U+19D7", "U+19D8", "U+19D9">>,
    <<"U+1A80", "U+1A81", "U+1A82", "U+1A83", "U+1A84", "U+1A85", "U+1A86", "U+1A87", "U+1A88", "U+1A89">>,
    <<"U+1A90", "U+1A91", "U+1A92", "U+1A93", "U+1A94", "U+1A95", "U+1A96", "U+1A97", "U+1A98", "U+1A99">>,
    <<"U+1B50", "U+1B51", "U+1B52", "U+1B53", "U+1B54", "U+1B55", "U+1B56", "U+1B57", "U+1B58", "U+1B59">>,
    <<"U+1BB0", "U+1BB1", "U+1BB2", "U+1BB3", "U+1BB4", "U+1BB5", "U+1BB6", "U+1BB7", "U+1BB8", "U+1BB9">>,
    <<"U+1C40", "U+1C41", "U+1C42", "U+1C43", "U+1C44", "U+1C45", "U+1C46", "U+1C47", "U+1C48", "U+1C49">>,
    <<"U+1C50", "U+1C51", "U+1C52", "U+1C53", "U+1C54", "U+1C55", "U+1C56", "U+1C57", "U+1C58", "U+1C59">>,
    <<"U+A620", "U+A621", "U+A622", "U+A623", "U+A624", "U+A625", "U+A626", "U+A627", "U+A628", "U+A629">>,
    <<"U+A8D0", "U+A8D1", "U+A8D2", "U+A8D3", "U+A8D4", "U+A8D5", "U+A8D6", "U+A8D7", "U+A8D8", "U+A8D9">>,
    <<"U+A900", "U+A901", "U+A902", "U+A903", "U+A904", "U+A905", "U+A906", "U+A907", "U+A908", "U+A909">>,
    <<"U+A9D0", "U+A9D1", "U+A9D2", "U+A9D3", "U+A9D4", "U+A9D5", "U+A9D6", "U+A9D7", "U+A9D8", "U+A9D9">>,
    <<"U+A9F0", "U+A9F1", "U+A9F2", "U+A9F3", "U+A9F4", "U+A9F5", "U+A9F6", "U+A9F7", "U+A9F8", "U+A9F9">>,
    <<"U+AA50", "U+AA51", "U+AA52", "U+AA53", "U+AA54", "U+AA55", "U+AA56", "U+AA57", "U+AA58", "U+AA59">>,
    <<"U+ABF0", "U+ABF1", "U+ABF2", "U+ABF3", "U+ABF4", "U+ABF5", "U+ABF6", "U+ABF7", "U+ABF8", "U+ABF9">>,
    <<"U+FF10", "U+FF11", "U+FF12", "U+FF13", "U+FF14", "U+FF15", "U+FF16", "U+FF17", "U+FF18", "U+FF19">>,
    <<"U+104A0", "U+104A1", "U+104A2", "U+104A3", "U+104A4", "U+104A5", "U+104A6", "U+104A7", "U+104A8", "U+104A9">>,
    <<"U+10D30", "U+10D31", "U+10D32", "U+10D33", "U+10D34", "U+10D35", "U+10D36", "U+10D37", "U+10D38", "U+10D39">>,
    <<"U+11066", "U+11067", "U+11068", "U+11069", "U+1106A", "U+1106B", "U+1106C", "U+1106D", "U+1106E", "U+1106F">>,
    <<"U+110F0", "U+110F1", "U+110F2", "U+110F3", "U+110F4", "U+110F5", "U+110F6", "U+110F7", "U+110F8", "U+110F9">>,
    <<"U+11136", "U+11137", "U+11138", "U+11139", "U+1113A", "U+1113B", "U+1113C", "U+1113D", "U+1113E", "U+1113F">>,
    <<"U+111D0", "U+111D1", "U+111D2", "U+111D3", "U+111D4", "U+111D5", "U+111D6", "U+111D7", "U+111D8", "U+111D9">>,
    <<"U+112F0", "U+112F1", "U+112F2", "U+112F3", "U+112F4", "U+112F5", "U+112F6", "U+112F7", "U+112F8", "U+112F9">>,
    <<"U+11450", "U+11451", "U+11452", "U+11453", "U+11454", "U+11455", "U+11456", "U+11457", "U+11458", "U+11459">>,
    <<"U+114D0", "U+114D1", "U+114D2", "U+114D3", "U+114D4", "U+114D5", "U+114D6", "U+114D7", "U+114D8", "U+114D9">>,
    <<"U+11650", "U+11651", "U+11652", "U+11653", "U+11654", "U+11655", "U+11656", "U+11657", "U+11658", "U+11659">>,
    <<"U+116C0", "U+116C1", "U+116C2", "U+116C3", "U+116C4", "U+116C5", "U+116C6", "U+116C7", "U+116C8", "U+116C9">>,
    <<"U+11730", "U+11731", "U+11732", "U+11733", "U+11734", "U+11735", "U+11736", "U+11737", "U+11738", "U+11739">>,
    <<"U+118E0", "U+118E1", "U+118E2", "U+118E3", "U+118E4", "U+118E5", "U+118E6", "U+118E7", "U+118E8", "U+118E9">>,
    <<"U+11950", "U+11951", "U+11952", "U+11953", "U+11954", "U+11955", "U+11956", "U+11957", "U+11958", "U+11959">>,
    <<"U+11C50", "U+11C51", "U+11C52", "U+11C53", "U+11C54", "U+11C55", "U+11C56", "U+11C57", "U+11C58", "U+11C59">>,
    <<"U+11D50", "U+11D51", "U+11D52", "U+11D53", "U+11D54", "U+11D55", "U+11D56", "U+11D57", "U+11D58", "U+11D59">>,
    <<"U+11DA0", "U+11DA1", "U+11DA2", "U+11DA3", "U+11DA4", "U+11DA5", "U+11DA6", "U+11DA7", "U+11DA8", "U+11DA9">>,
    <<"U+16A60", "U+16A61", "U+16A62", "U+16A63", "U+16A64", "U+16A65", "U+16A66", "U+16A67", "U+16A68", "U+16A69">>,
    <<"U+16AC0", "U+16AC1", "U+16AC2", "U+16AC3", "U+16AC4", "U+16AC5", "U+16AC6", "U+16AC7", "U+16AC8", "U+16AC9">>,
    <<"U+16B50", "U+16B51", "U+16B52", "U+16B53", "U+16B54", "U+16B55", "U+16B56", "U+16B57", "U+16B58", "U+16B59">>,
    <<"U+1D7CE", "U+1D7CF", "U+1D7D0", "U+1D7D1", "U+1D7D2", "U+1D7D3", "U+1D7D4", "U+1D7D5", "U+1D7D6", "U+1D7D7">>,
    <<"U+1D7D8", "U+1D7D9", "U+1D7DA", "U+1D7DB", "U+1D7DC", "U+1D7DD", "U+1D7DE", "U+1D7DF", "U+1D7E0", "U+1D7E1">>,
    <<"U+1D7E2", "U+1D7E3", "U+1D7E4", "U+1D7E5", "U+1D7E6", "U+1D7E7", "U+1D7E8", "U+1D7E9", "U+1D7EA", "U+1D7EB">>,
    <<"U+1D7EC", "U+1D7ED", "U+1D7EE", "U+1D7EF", "U+1D7F0", "U+1D7F1", "U+1D7F2", "U+1D7F3", "U+1D7F4", "U+1D7F5">>,
    <<"U+1D7F6", "U+1D7F7", "U+1D7F8", "U+1D7F9", "U+1D7FA", "U+1D7FB", "U+1D7FC", "U+1D7FD", "U+1D7FE", "U+1D7FF">>,
    <<"U+1E140", "U+1E141", "U+1E142", "U+1E143", "U+1E144", "U+1E145", "U+1E146", "U+1E147", "U+1E148", "U+1E149">>,
    <<"U+1E2F0", "U+1E2F1", "U+1E2F2", "U+1E2F3", "U+1E2F4", "U+1E2F5", "U+1E2F6", "U+1E2F7", "U+1E2F8", "U+1E2F9">>,
    <<"U+1E950", "U+1E951", "U+1E952", "U+1E953", "U+1E954", "U+1E955", "U+1E956", "U+1E957", "U+1E958", "U+1E959">>,
    <<"U+1FBF0", "U+1FBF1", "U+1FBF2", "U+1FBF3", "U+1FBF4", "U+1FBF5", "U+1FBF6", "U+1FBF7", "U+1FBF8", "U+1FBF9">> >>

DigitChars ==
    {Digits[i] : i \in 1..10}
        \cup UNION {{UnicodeDigits[r][i] : i \in 1..10} : r \in DOMAIN UnicodeDigits}

IsDigit(c) == c \in DigitChars

DigitVal(c) ==
    IF \E i \in 1..10 : Digits[i] = c
    THEN (CHOOSE i \in 1..10 : Digits[i] = c) - 1
    ELSE (CHOOSE i \in 1..10 :
            \E r \in DOMAIN UnicodeDigits : UnicodeDigits[r][i] = c) - 1

\* White space float() strips: the six ASCII characters of Py_ISSPACE, and
\* the non-ASCII characters of str.isspace(), which float() first turns into
\* spaces.  The separators U+001C to U+001F are not among them.
IsSpace(c) ==
    c \in {" ", "\t", "\n", "\r", "\f", "U+000B",
           "U+0085", "U+00A0", "U+1680",
           "U+2000", "U+2001", "U+2002", "U+2003", "U+2004", "U+2005",
           "U+2006", "U+2007", "U+2008", "U+2009", "U+200A",
           "U+2028", "U+2029", "U+202F", "U+205F", "U+3000"}

\* float() first rewrites every decimal digit as its ASCII digit.
ToAscii(s) ==
    [i \in DOMAIN s |-> IF IsDigit(s[i]) THEN Digits[DigitVal(s[i]) + 1]
                        ELSE s[i]]

Lower(c) ==
    CASE c = "I" -> "i" [] c = "N" -> "n" [] c = "F" -> "f"
      [] c = "T" -> "t" [] c = "Y" -> "y" [] c = "A" -> "a"
      [] c = "E" -> "e" [] OTHER -> c

LowerAll(s) == [i \in DOMAIN s |-> Lower(s[i])]

StripLeft(s) ==
    IF \A i \in DOMAIN s : IsSpace(s[i]) THEN <<>>
    ELSE SubSeq(s, CHOOSE i \in DOMAIN s :
                       ~IsSpace(s[i]) /\ \A j \in 1..(i - 1) : IsSpace(s[j]),
                Len(s))

StripRight(s) ==
    IF \A i \in DOMAIN s : IsSpace(s[i]) THEN <<>>
    ELSE SubSeq(s, 1, CHOOSE i \in DOMAIN s :
                          ~IsSpace(s[i]) /\ \A j \in (i + 1)..Len(s) : IsSpace(s[j]))

\* An underscore is legal only between two digits.
UnderscoresOk(s) ==
    \A i \in DOMAIN s :
        s[i] = "_" => /\ i > 1 /\ IsDigit(s[i - 1])
                      /\ i < Len(s) /\ IsDigit(s[i + 1])

RemoveUnderscores(s) == SelectSeq(s, LAMBDA c : c # "_")

AllDigits(s) == \A i \in DOMAIN s : IsDigit(s[i])

\* First position of a character of set cs in s, or 0.
IndexOf(s, cs) ==
    IF \E i \in DOMAIN s : s[i] \in cs
    THEN CHOOSE i \in DOMAIN s :
            s[i] \in cs /\ \A j \in 1..(i - 1) : s[j] \notin cs
    ELSE 0

(***************************************************************************)
(* Decimal arithmetic on digit sequences (most significant digit first),   *)
(* so that no number of digits overflows.  A positive decimal is           *)
(* [digits, order], the number 0.d1 d2 ... dn * 10^order with d1 # 0.      *)
(***************************************************************************)
TrimLead(ds) ==
    IF \A i \in DOMAIN ds : ds[i] = 0 THEN <<>>
    ELSE SubSeq(ds, CHOOSE i \in DOMAIN ds :
                        ds[i] # 0 /\ \A j \in 1..(i - 1) : ds[j] = 0,
                Len(ds))

TrimTrail(ds) ==
    IF \A i \in DOMAIN ds : ds[i] = 0 THEN <<>>
    ELSE SubSeq(ds, 1, CHOOSE i \in DOMAIN ds :
                           ds[i] # 0 /\ \A j \in (i + 1)..Len(ds) : ds[j] = 0)

RECURSIVE NatDigits(_)
NatDigits(n) == IF n = 0 THEN <<>> ELSE Append(NatDigits(n \div 10), n % 10)

Zeros(k) == [i \in 1..k |-> 0]

DigitAt(ds, i) == IF i >= 1 /\ i <= Len(ds) THEN ds[i] ELSE 0

\* 2 * ds: the carry into a digit is 1 exactly when the next digit is >= 5.
Double(ds) ==
    (IF ds # <<>> /\ ds[1] >= 5 THEN <<1>> ELSE <<>>)
        \o [i \in DOMAIN ds |->
                ((2 * ds[i]) % 10) + (IF DigitAt(ds, i + 1) >= 5 THEN 1 ELSE 0)]

\* 5 * ds, as (10 * ds) / 2: halving carries 5 from an odd digit to the next.
Times5(ds) ==
    TrimLead([i \in 1..(Len(ds) + 1) |->
                (DigitAt(ds, i) + 10 * (DigitAt(ds, i - 1) % 2)) \div 2])

\* ds * 5^k and ds * 2^k: half of the k factors are applied, then the
\* other half to the digits obtained (zero has no digits).
RECURSIVE Pow5Times(_, _)
Pow5Times(ds, k) ==
    IF k = 0 THEN ds
    ELSE IF k = 1 THEN Times5(ds)
    ELSE LET h == Pow5Times(ds, k \div 2)
         IN  IF Len(h) = 0 THEN <<>> ELSE Pow5Times(h, k - k \div 2)

Pow5(k) == Pow5Times(<<1>>, k)

RECURSIVE Pow2Times(_, _)
Pow2Times(ds, k) ==
    IF k = 0 THEN ds
    ELSE IF k = 1 THEN Double(ds)
    ELSE LET h == Pow2Times(ds, k \div 2)
         IN  IF Len(h) = 0 THEN <<>> ELSE Pow2Times(h, k - k \div 2)

RECURSIVE Log2(_)
Log2(n) == IF n < 2 THEN 0 ELSE 1 + Log2(n \div 2)

\* Digit sequences compared as fractions 0.a and 0.b, at the first place
\* where they differ.
CmpFrac(a, b) ==
    LET n == IF Len(a) > Len(b) THEN Len(a) ELSE Len(b)
    IN  IF \A i \in 1..n : DigitAt(a, i) = DigitAt(b, i) THEN 0
        ELSE LET i == CHOOSE i \in 1..n :
                        /\ DigitAt(a, i) # DigitAt(b, i)
                        /\ \A j \in 1..(i - 1) : DigitAt(a, j) = DigitAt(b, j)
             IN  IF DigitAt(a, i) > DigitAt(b, i) THEN 1 ELSE 0 - 1

\* -1, 0 or 1 as x < y, x = y or x > y.
CmpDec(x, y) ==
    IF x.order > y.order THEN 1
    ELSE IF x.order < y.order THEN 0 - 1
    ELSE CmpFrac(x.digits, y.digits)

\* 2^-k = 5^k / 10^k.
NegPow2(k) == LET p == Pow5(k) IN [digits |-> p, order |-> Len(p) - k]

(***************************************************************************)
(* The floats.  float() rounds the decimal to the nearest IEEE double,     *)
(* ties to even.  The record keeps the decimal as written (leading and     *)
(* trailing zeros removed) and the operators below decide with the         *)
(* rounding of a double: which decimals become infinite, which become      *)
(* zero, and how the rounded value compares with an integer.               *)
(***************************************************************************)
FloatErr == [kind |-> "err", neg |-> FALSE, mant |-> <<>>, exp |-> 0]
FloatNaN == [kind |-> "nan", neg |-> FALSE, mant |-> <<>>, exp |-> 0]
FloatInf(neg) == [kind |-> "inf", neg |-> neg, mant |-> <<>>, exp |-> 0]

\* mant * 10^exp, mant a digit sequence; the zeros at either end of mant
\* are removed, the trailing ones moved into exp.
Normal(neg, mant, exp) ==
    LET a == TrimLead(mant)
        b == TrimTrail(a)
    IN  IF b = <<>> THEN [kind |-> "fin", neg |-> neg, mant |-> <<>>, exp |-> 0]
        ELSE [kind |-> "fin", neg |-> neg, mant |-> b,
              exp |-> exp + Len(a) - Len(b)]

\* The format of a double (sys.float_info): bits of mantissa, decimal digits
\* that survive the rounding, largest and smallest power of two.
DblMantDig == 53
DblDig == 15
DblMaxExp == 1024
DblMinExp == 0 - 1074

\* Half way between the largest double and 2^DblMaxExp, (2^54 - 1) * 2^970:
\* a decimal at or above it rounds to infinity.
DblOverflow ==
    LET p  == Pow2Times(<<1>>, DblMantDig + 1)
        m  == [p EXCEPT ![Len(p)] = @ - 1]
        ds == Pow2Times(m, DblMaxExp - DblMantDig - 1)
    IN  [digits |-> ds, order |-> Len(ds)]

\* Half the least subnormal, 2^-1075: a decimal at or below it rounds to
\* zero.
DblUnderflow == NegPow2(1 - DblMinExp)

Ranged(v) ==
    IF v.kind # "fin" \/ v.mant = <<>> THEN v
    ELSE LET d == [digits |-> v.mant, order |-> Len(v.mant) + v.exp]
         IN  IF CmpDec(d, DblOverflow) >= 0 THEN FloatInf(v.neg)
             ELSE IF CmpDec(d, DblUnderflow) <= 0
             THEN Normal(v.neg, <<>>, 0)
             ELSE v

\* Exponents are saturated here: far beyond it a double is infinite or zero
\* whatever the digits are.
ExpCap == 100000000

RECURSIVE DigitsToNat(_, _)
DigitsToNat(ds, acc) ==
    IF ds = <<>> THEN acc ELSE DigitsToNat(Tail(ds), acc * 10 + Head(ds))

\* The number written by the digits ds, or ExpCap if it is larger.
ExpValue(ds) ==
    LET sig == TrimLead(ds)
    IN  IF Len(sig) > Len(NatDigits(ExpCap)) - 1 THEN ExpCap
        ELSE DigitsToNat(sig, 0)

\* [sign] digits [. digits] [e [sign] digits], already stripped, lower case.
ParseDecimal(neg, body) ==
    LET ePos   == IndexOf(body, {"e"})
        m      == IF ePos = 0 THEN body ELSE SubSeq(body, 1, ePos - 1)
        x      == IF ePos = 0 THEN <<>> ELSE SubSeq(body, ePos + 1, Len(body))
        xSigned == x # <<>> /\ Head(x) \in {"+", "-"}
        xNeg   == x # <<>> /\ Head(x) = "-"
        xDig   == IF xSigned THEN Tail(x) ELSE x
        dot    == IndexOf(m, {"."})
        ip     == IF dot = 0 THEN m ELSE SubSeq(m, 1, dot - 1)
        fp     == IF dot = 0 THEN <<>> ELSE SubSeq(m, dot + 1, Len(m))
        sig    == [i \in 1..(Len(ip) + Len(fp)) |-> DigitVal((ip \o fp)[i])]
        xVal   == ExpValue([i \in DOMAIN xDig |-> DigitVal(xDig[i])])
        e10    == (IF xNeg THEN 0 - xVal ELSE xVal) - Len(fp)
    IN  IF \/ ~AllDigits(ip) \/ ~AllDigits(fp)
           \/ Len(ip) + Len(fp) = 0
           \/ (ePos # 0 /\ (xDig = <<>> \/ ~AllDigits(xDig)))
        THEN FloatErr
        ELSE Ranged(Normal(neg, sig, e10))

ParseFloat(text) ==
    LET t      == StripRight(StripLeft(ToAscii(text)))
        s      == LowerAll(RemoveUnderscores(t))
        signed == s # <<>> /\ Head(s) \in {"+", "-"}
        neg    == s # <<>> /\ Head(s) = "-"
        body   == IF signed THEN Tail(s) ELSE s
    IN  IF ~UnderscoresOk(t) THEN FloatErr
        ELSE IF body \in {<<"i", "n", "f">>,
                          <<"i", "n", "f", "i", "n", "i", "t", "y">>}
        THEN FloatInf(neg)
        ELSE IF body = <<"n", "a", "n">> THEN FloatNaN
        ELSE ParseDecimal(neg, body)

\* The decimals that round to the integer n >= 1 are those from
\* n - (half the gap below n) to n + (half the gap above n), both ends
\* included because n, an integer below 2^52, has an even mantissa.
Above(n) ==
    LET k == DblMantDig - Log2(n)
        p == Pow5(k)
    IN  [digits |-> NatDigits(n) \o Zeros(k - Len(p)) \o p,
         order |-> Len(NatDigits(n))]

Below(n) ==
    LET e == Log2(n)
        k == DblMantDig - e + (IF Pow2Times(<<1>>, e) = NatDigits(n) THEN 1 ELSE 0)
        p == Zeros(k - Len(Pow5(k))) \o Pow5(k)
        c == [i \in 1..k |-> IF i = k THEN 10 - p[i] ELSE 9 - p[i]]
    IN  [digits |-> NatDigits(n - 1) \o c, order |-> Len(NatDigits(n - 1))]

\* -1, 0 or 1 as the float v (finite or infinite) is below, equal to or
\* above the non-negative integer n.
FloatCmp(v, n) ==
    CASE v.kind = "inf" -> IF v.neg THEN 0 - 1 ELSE 1
      [] v.kind = "fin" ->
            IF v.mant = <<>> THEN (IF n = 0 THEN 0 ELSE 0 - 1)
            ELSE IF v.neg THEN 0 - 1
            ELSE IF n = 0 THEN 1
            ELSE LET d == [digits |-> v.mant, order |-> Len(v.mant) + v.exp]
                 IN  IF Len(v.mant) <= DblDig
                     THEN CmpDec(d, [digits |-> NatDigits(n),
                                     order |-> Len(NatDigits(n))])
                     ELSE IF CmpDec(d, Above(n)) > 0 THEN 1
                     ELSE IF CmpDec(d, Below(n)) < 0 THEN 0 - 1
                     ELSE 0

\* Changed FloatGT: the comparison written as >=.
FloatGE(v, n) ==
    CASE v.kind = "nan" -> FALSE
      [] OTHER -> FloatCmp(v, n) >= 0

\* Python's  v > n  for a float v and a non-negative integer literal n:
\* every comparison with NaN is False.
FloatGT(v, n) ==
    CASE v.kind = "nan" -> FALSE
      [] OTHER -> FloatCmp(v, n) > 0


(***************************************************************************)
(* Program state                                                           *)
(***************************************************************************)
VARIABLES
    scope,              \* global scope: the registered oscilloscope handle
    psu,                \* global psu: the registered power-supply handle
    is_running,         \* global is_running: the redraw loop's flag
    pending,            \* update_graph callbacks scheduled by root.after
    canvas,             \* the picture on the canvas
    sim_mode_var,       \* the "Sim Mode" check box
    scope_status_lbl,   \* text of the oscilloscope status label
    psu_status_lbl,     \* text of the power-supply status label
    buttons,            \* state of the seven control buttons
    psu_ind,            \* colour of the PSU output indicator
    scope_volts_entry,  \* form fields, as text
    scope_freq_entry,
    psu_volts_entry,
    psu_curr_entry,
    tech_entry,         \* the "Technician Name" field, as text
    log,                \* content of log_window, one element per entry
    nextId,             \* identity given to the next constructed driver
    psu_channel_set,    \* the registered PSU handle has had a set_channel
                        \* succeed on it
    workbook,           \* the file EXCEL_FILENAME on disk
    modal,              \* the message box update_excel_log is waiting in,
                        \* or NoDialog
    ops,                \* handler runs so far (bounds the exploration)
    budget,              \* the number of handler runs explored
    phase,              \* "boot": before load_config; "main": in mainloop;
                        \* "closed": after on_closing or a fatal start-up
    last                \* the most recent GUI event: the handler's name,
                        \* its return value, the exception that left it,
                        \* the log length when it began, the driver calls
                        \* it made

vars == <<scope, psu, is_running, pending, canvas, sim_mode_var, scope_status_lbl,
          psu_status_lbl, buttons, psu_ind, scope_volts_entry,
          scope_freq_entry, psu_volts_entry, psu_curr_entry, tech_entry, log,
          nextId, psu_channel_set, workbook, modal, ops, budget, phase, last>>

\* The number of handler runs (connect included) explored in one session.
MaxOps == 2

\* The same for the sessions of SpecRerun: a connect and two runs.
MaxRuns == 3

\* Safety limits of the two interlocks.
SCOPE_LIMIT == 20
PSU_LIMIT == 32

\* Texts the operator types into the four numeric fields.
\* "U+FF12", "U+FF15" are the full-width digits 2 and 5.
ScopeVoltsTexts ==
    { <<"5", ".", "0">>, <<"2", "0", ".", "0">>,
      <<"2", "0", ".", "0", "0", "0", "1">>, <<"n", "a", "n">>,
      <<"U+FF12", "U+FF15">> }
ScopeFreqTexts ==
    { <<"5", "0">>, <<>> }
PsuVoltsTexts ==
    { <<"1", "2", ".", "0">>, <<"3", "2", ".", "0">>, <<"3", "2", ".", "1">> }
PsuCurrTexts ==
    { <<"1", ".", "0">>, <<"-", "i", "n", "f">> }

\* Texts typed into the technician field.
TechTexts ==
    { <<>>, <<"A", "l">> }

\* The texts log_message is called with.
MsgConfigLoaded == "System Initialized. Config loaded."
MsgConfigMissing == "System Alert: config.json not found."
MsgConnectingSim == "Connecting (SIM)..."
MsgConnectingHw == "Connecting (HARDWARE)..."
MsgReady == "Ready."
MsgScopeRejected == "SAFETY: Scope Voltage > 20V rejected."
MsgScopeSet == "Scope: {volts}V @ {freq}Hz set."
MsgPsuRejected == "SAFETY: PSU Voltage > 32V rejected."
MsgPsuSet == "PSU: {volts}V / {curr}A set."
MsgPsuOn == "PSU: Output ON"
MsgPsuOff == "PSU: Output OFF"
MsgMasterStart == "--- STARTING MASTER SEQUENCE ---"
MsgMasterComplete == "--- SEQUENCE COMPLETE ---"
MsgMasterAborted == "--- SEQUENCE ABORTED (Safety/Error) ---"
MsgEmergencyStop == "!!! EMERGENCY STOP !!!"

\* The two message boxes of update_excel_log.
MsgLogSaved == "Log Saved."
MsgSaveFailed == "Save Failed: "
NoDialog == [kind |-> "none", text |-> ""]
ShowInfo(text) == [kind |-> "info", text |-> text]
ShowError(text) == [kind |-> "error", text |-> text]

\* A box of the given kind that on_closing destroyed under the handler
\* waiting in it, and the text of the TclError Tk then raises in the
\* handler.
Destroyed(kind) == [kind |-> "destroyed", text |-> kind]
MsgAppDestroyed ==
    "can't invoke \"grab\" command: application has been destroyed"

\* None, and the handles the two driver classes construct.  sim tells a
\* MockDS1000Z / MockDP800 from a DS1000Z / DP800.
None == [id |-> 0, sim |-> TRUE]
Handle(id, sim) == [id |-> id, sim |-> sim]
Truthy(h) == h.id # 0

\* Changed Register: the name is bound before the constructor has returned.
RegisterHalfBuilt(old, id, sim, ok) == Handle(id, sim)

\* "name = Driver(ip)" inside try: the global is assigned only when the
\* constructor returns; when it raises, the global keeps its old value.
Register(old, id, sim, ok) == IF ok THEN Handle(id, sim) ELSE old

\* Changed StartsLoop: "if not is_running" dropped.
StartsLoopAlways(connected, running) == connected

\* connect_instruments calls update_graph itself only under
\* "if scope or psu:" and "if not is_running:".
StartsLoop(connected, running) == connected /\ ~running

\* The workbook file: absent, or the rows of its active sheet.
NoFile == [exists |-> FALSE, rows |-> <<>>]
Saved(rows) == [exists |-> TRUE, rows |-> rows]

Header == <<"Timestamp", "Tech", "Scope V", "Scope Hz", "PSU V", "PSU A",
            "Log">>

\* datetime.now() formatted, and the technician field (never typed into).
Timestamp == "%Y-%m-%d %H:%M:%S"

ScopeOps == {"reset", "set_source_amplitude", "set_source_frequency",
             "enable_source"}
PsuOps == {"set_channel", "enable_output", "disable_output"}

(***************************************************************************)
(* A handler runs on a frame: the log, the driver calls made so far, the   *)
(* indicator colour, the value returned, the exception in flight, the      *)
(* workbook file and the message box shown.                                *)
(***************************************************************************)
NoExc == ""

Frame == [log |-> log, calls |-> <<>>, ind |-> psu_ind, ret |-> "None",
          exc |-> NoExc, book |-> workbook, dialog |-> NoDialog]

Return(st, v) == [st EXCEPT !.ret = v]

\* Changed log_message: the window is cleared before the insert.
log_message_replacing(st, message, args) ==
    [st EXCEPT !.log = <<[msg |-> message, args |-> args]>>]

\* log_message: one entry appended at tk.END.
log_message(st, message, args) ==
    [st EXCEPT !.log = Append(st.log, [msg |-> message, args |-> args])]

\* The exception a failing driver operation raises (its cause).
DriverError(op) == "DriverError: " \o op

\* One driver method call on handle h.  The mock drivers only print; a
\* hardware driver raises when the operation is in fails.
Invoke(st, h, role, op, args, fails) ==
    LET ok == h.sim \/ op \notin fails
    IN  [st EXCEPT
            !.calls = Append(st.calls, [role |-> role, h |-> h.id, op |-> op,
                                        args |-> args, ok |-> ok]),
            !.exc = IF ok THEN NoExc ELSE DriverError(op)]

Raised(st) == st.exc # NoExc

\* Changed Swallow: "except: return True".
SwallowTrue(st) == [st EXCEPT !.exc = NoExc, !.ret = "True"]

\* A bare "except: return False".
Swallow(st) == [st EXCEPT !.exc = NoExc, !.ret = "False"]

(***************************************************************************)
(* Control logic: src/gui.py lines 148-200                                 *)
(***************************************************************************)
\* A statement sequence: "v = expr; rest".
Let(v, rest(_)) == rest(v)

\* A driver call inside "try: ... except: return False".
OrFalse(s, rest(_)) == IF Raised(s) THEN Swallow(s) ELSE rest(s)

\* A driver call outside any try block: the exception leaves the function.
OrRaise(s, rest(_)) == IF Raised(s) THEN s ELSE rest(s)

\* Changed run_scope_sequence: enable_source moved in front of the two
\* settings.
run_scope_sequence_enable_first(st, fails) ==
    IF ~Truthy(scope) THEN Return(st, "False")
    ELSE
    Let(ParseFloat(scope_volts_entry), LAMBDA volts :
    Let(ParseFloat(scope_freq_entry), LAMBDA freq :
        IF volts.kind = "err" \/ freq.kind = "err" THEN Return(st, "False")
        ELSE IF FloatGT(volts, SCOPE_LIMIT)
        THEN Return(log_message(st, MsgScopeRejected, <<>>), "False")
        ELSE
        OrFalse(Invoke(st, scope, "scope", "enable_source", <<>>, fails),
                LAMBDA s1 :
        OrFalse(Invoke(s1, scope, "scope", "set_source_amplitude", <<volts>>,
                       fails), LAMBDA s2 :
        OrFalse(Invoke(s2, scope, "scope", "set_source_frequency", <<freq>>,
                       fails), LAMBDA s3 :
        Return(log_message(s3, MsgScopeSet, <<volts, freq>>), "True"))))))

\* Changed run_scope_sequence: the limit is checked after the commands.
run_scope_sequence_late_check(st, fails) ==
    IF ~Truthy(scope) THEN Return(st, "False")
    ELSE
    Let(ParseFloat(scope_volts_entry), LAMBDA volts :
    Let(ParseFloat(scope_freq_entry), LAMBDA freq :
        IF volts.kind = "err" \/ freq.kind = "err" THEN Return(st, "False")
        ELSE
        OrFalse(Invoke(st, scope, "scope", "set_source_amplitude", <<volts>>,
                       fails), LAMBDA s1 :
        OrFalse(Invoke(s1, scope, "scope", "set_source_frequency", <<freq>>,
                       fails), LAMBDA s2 :
        OrFalse(Invoke(s2, scope, "scope", "enable_source", <<>>, fails),
                LAMBDA s3 :
        IF FloatGT(volts, SCOPE_LIMIT)
        THEN Return(log_message(s3, MsgScopeRejected, <<>>), "False")
        ELSE Return(log_message(s3, MsgScopeSet, <<volts, freq>>), "True"))))))

run_scope_sequence(st, fails) ==
    IF ~Truthy(scope) THEN Return(st, "False")
    ELSE
    Let(ParseFloat(scope_volts_entry), LAMBDA volts :
    Let(ParseFloat(scope_freq_entry), LAMBDA freq :
        IF volts.kind = "err" \/ freq.kind = "err" THEN Return(st, "False")
        ELSE IF FloatGT(volts, SCOPE_LIMIT)
        THEN Return(log_message(st, MsgScopeRejected, <<>>), "False")
        ELSE
        OrFalse(Invoke(st, scope, "scope", "set_source_amplitude", <<volts>>,
                       fails), LAMBDA s1 :
        OrFalse(Invoke(s1, scope, "scope", "set_source_frequency", <<freq>>,
                       fails), LAMBDA s2 :
        OrFalse(Invoke(s2, scope, "scope", "enable_source", <<>>, fails),
                LAMBDA s3 :
        Return(log_message(s3, MsgScopeSet, <<volts, freq>>), "True"))))))

set_psu_params(st, fails) ==
    IF ~Truthy(psu) THEN Return(st, "False")
    ELSE
    Let(ParseFloat(psu_volts_entry), LAMBDA volts :
    Let(ParseFloat(psu_curr_entry), LAMBDA curr :
        IF volts.kind = "err" \/ curr.kind = "err" THEN Return(st, "False")
        ELSE IF FloatGT(volts, PSU_LIMIT)
        THEN Return(log_message(st, MsgPsuRejected, <<>>), "False")
        ELSE
        OrFalse(Invoke(st, psu, "psu", "set_channel", <<volts, curr>>, fails),
                LAMBDA s1 :
        Return(log_message(s1, MsgPsuSet, <<volts, curr>>), "True"))))

\* Changed toggle_psu: nothing is sent when the indicator already shows
\* the requested state.
toggle_psu_latched(st, state, fails) ==
    IF ~Truthy(psu) \/ st.ind = (IF state THEN "green" ELSE "gray")
    THEN Return(st, "None")
    ELSE Let(Invoke(st, psu, "psu",
                    IF state THEN "enable_output" ELSE "disable_output",
                    <<>>, fails), LAMBDA s1 :
         IF Raised(s1) THEN s1
         ELSE Return(log_message([s1 EXCEPT !.ind = IF state THEN "green"
                                                     ELSE "gray"],
                                 IF state THEN MsgPsuOn ELSE MsgPsuOff, <<>>),
                     "None"))

toggle_psu(st, state, fails) ==
    IF ~Truthy(psu) THEN Return(st, "None")
    ELSE IF state
    THEN OrRaise(Invoke(st, psu, "psu", "enable_output", <<>>, fails),
                 LAMBDA s1 :
         Return(log_message([s1 EXCEPT !.ind = "green"], MsgPsuOn, <<>>),
                "None"))
    ELSE OrRaise(Invoke(st, psu, "psu", "disable_output", <<>>, fails),
                 LAMBDA s1 :
         Return(log_message([s1 EXCEPT !.ind = "gray"], MsgPsuOff, <<>>),
                "None"))

\* Changed run_master: "&" for "and", so both calls are always evaluated.
run_master_eager(st, fails) ==
    Let(log_message(st, MsgMasterStart, <<>>), LAMBDA s0 :
    Let(run_scope_sequence(s0, fails), LAMBDA s1 :
    Let(set_psu_params(s1, fails), LAMBDA s2 :
        IF s1.ret = "True" /\ s2.ret = "True"
        THEN OrRaise(toggle_psu(s2, TRUE, fails), LAMBDA s3 :
             Return(log_message(s3, MsgMasterComplete, <<>>), "None"))
        ELSE Return(log_message(s2, MsgMasterAborted, <<>>), "None"))))

\* "run_scope_sequence() and set_psu_params()" evaluates the second call
\* only when the first returned True.
run_master(st, fails) ==
    Let(log_message(st, MsgMasterStart, <<>>), LAMBDA s0 :
    Let(run_scope_sequence(s0, fails), LAMBDA s1 :
    Let(IF s1.ret = "True" THEN set_psu_params(s1, fails) ELSE s1, LAMBDA s2 :
        IF s2.ret = "True"
        THEN OrRaise(toggle_psu(s2, TRUE, fails), LAMBDA s3 :
             Return(log_message(s3, MsgMasterComplete, <<>>), "None"))
        ELSE Return(log_message(s2, MsgMasterAborted, <<>>), "None"))))

\* Changed emergency_stop: "if psu:" dropped, so None.disable_output raises.
emergency_stop_unguarded(st, fails) ==
    Let(log_message(st, MsgEmergencyStop, <<>>), LAMBDA s0 :
    OrRaise(IF Truthy(scope)
            THEN Invoke(s0, scope, "scope", "reset", <<>>, fails) ELSE s0,
            LAMBDA s1 :
        IF ~Truthy(psu) THEN [s1 EXCEPT !.exc = "AttributeError"]
        ELSE OrRaise(Invoke(s1, psu, "psu", "disable_output", <<>>, fails),
                     LAMBDA s2 :
             Return([s2 EXCEPT !.ind = "gray"], "None"))))

emergency_stop(st, fails) ==
    Let(log_message(st, MsgEmergencyStop, <<>>), LAMBDA s0 :
    OrRaise(IF Truthy(scope)
            THEN Invoke(s0, scope, "scope", "reset", <<>>, fails) ELSE s0,
            LAMBDA s1 :
        IF ~Truthy(psu) THEN Return(s1, "None")
        ELSE OrRaise(Invoke(s1, psu, "psu", "disable_output", <<>>, fails),
                     LAMBDA s2 :
             Return([s2 EXCEPT !.ind = "gray"], "None"))))

(***************************************************************************)
(* The export: src/gui.py lines 202-216                                    *)
(***************************************************************************)
\* The row update_excel_log appends: the four fields as text and the whole
\* log window.
SessionRow(st) ==
    <<Timestamp, tech_entry, scope_volts_entry, scope_freq_entry,
      psu_volts_entry, psu_curr_entry, st.log>>

\* Changed update_excel_log: "except Exception: pass".
update_excel_log_silent(st, loadOk, saveOk) ==
    IF (st.book.exists /\ ~loadOk) \/ ~saveOk THEN Return(st, "None")
    ELSE
    Let(IF st.book.exists THEN st.book.rows ELSE <<Header>>, LAMBDA rows :
        Return([st EXCEPT !.book = Saved(Append(rows, SessionRow(st))),
                          !.dialog = ShowInfo(MsgLogSaved)], "None"))

\* Changed update_excel_log: a new Workbook whether the file exists or not.
update_excel_log_fresh(st, loadOk, saveOk) ==
    IF ~saveOk
    THEN Return([st EXCEPT !.dialog = ShowError(MsgSaveFailed \o "save")],
                "None")
    ELSE Return([st EXCEPT !.book = Saved(<<Header, SessionRow(st)>>),
                           !.dialog = ShowInfo(MsgLogSaved)], "None")

\* loadOk: load_workbook returns; saveOk: wb.save returns.  Either one
\* raising is caught and shown; the file is then as it was.
update_excel_log(st, loadOk, saveOk) ==
    IF st.book.exists /\ ~loadOk
    THEN Return([st EXCEPT
                    !.dialog = ShowError(MsgSaveFailed \o "load_workbook")],
                "None")
    ELSE
    Let(IF st.book.exists THEN st.book.rows ELSE <<Header>>, LAMBDA rows :
        IF ~saveOk
        THEN Return([st EXCEPT !.dialog = ShowError(MsgSaveFailed \o "save")],
                    "None")
        ELSE Return([st EXCEPT !.book = Saved(Append(rows, SessionRow(st))),
                               !.dialog = ShowInfo(MsgLogSaved)], "None"))

\* update_excel_log goes on after its message box was destroyed with the
\* window: the call it waits in raises TclError.  From showinfo, inside the
\* try block, "except Exception as e" takes it for a failed save and opens
\* the error box; from showerror, inside the except clause, it leaves the
\* handler.
update_excel_log_resumed(st, box) ==
    IF box = "info"
    THEN Return([st EXCEPT !.dialog = ShowError(MsgSaveFailed \o MsgAppDestroyed)],
                "None")
    ELSE [st EXCEPT !.exc = "TclError"]

(***************************************************************************)
(* The redraw tick: src/gui.py lines 113-145                               *)
(***************************************************************************)
\* amp as update_graph reads it: 1.0 when float() raises.
GraphAmp ==
    Let(ParseFloat(scope_volts_entry), LAMBDA a :
        IF a.kind = "err" THEN Normal(FALSE, <<1>>, 0) ELSE a)

\* np.random.normal(0, amp * 0.05, 500) raises ValueError for a negative
\* scale; the outer "except Exception: pass" then skips root.after.
DrawRaises == GraphAmp.kind \in {"fin", "inf"} /\ GraphAmp.neg

\* Changed update_graph: the "if not is_running: return" line dropped.
update_graph_unchecked(running) == IF ~DrawRaises THEN 1 ELSE 0

\* What one call of update_graph adds to the pending callbacks: it reaches
\* root.after exactly when it has redrawn the canvas.
update_graph(running) == IF running /\ ~DrawRaises THEN 1 ELSE 0

\* The picture after a call of update_graph that added n callbacks.  The
\* phase comes from time.time() and the noise from the random generator,
\* so a redraw never repeats the picture it replaces.
Redrawn(picture, n) ==
    IF n = 0 THEN picture
    ELSE IF picture = "trace_a" THEN "trace_b" ELSE "trace_a"

(***************************************************************************)
(* Actions                                                                 *)
(***************************************************************************)
\* ret is "raise" for a handler left by an exception and "waiting" for one
\* that has not returned, being inside the message box it opened.
Observed(name, start, r) ==
    [op |-> name,
     ret |-> IF Raised(r) THEN "raise"
             ELSE IF r.dialog # NoDialog THEN "waiting" ELSE r.ret,
     exc |-> r.exc,
     start |-> start, calls |-> r.calls, dialog |-> r.dialog]

\* The texts the four numeric fields are created with.
DefaultScopeVolts == <<"5", ".", "0">>
DefaultScopeFreq == <<"5", "0">>
DefaultPsuVolts == <<"1", "2", ".", "0">>
DefaultPsuCurr == <<"1", ".", "0">>

\* The state when the module has been imported: the globals and the
\* widgets as created, no workbook file yet, n handler runs to explore.
Boot(n) ==
    /\ scope = None /\ psu = None
    /\ is_running = FALSE /\ pending = 0
    /\ canvas = "waiting"
    /\ sim_mode_var = TRUE
    /\ scope_status_lbl = "Offline" /\ psu_status_lbl = "Offline"
    /\ buttons = "disabled"
    /\ psu_ind = "gray"
    /\ scope_volts_entry = DefaultScopeVolts
    /\ scope_freq_entry = DefaultScopeFreq
    /\ psu_volts_entry = DefaultPsuVolts
    /\ psu_curr_entry = DefaultPsuCurr
    /\ tech_entry = <<>>
    /\ log = <<>>
    /\ nextId = 1
    /\ psu_channel_set = FALSE
    /\ workbook = NoFile
    /\ modal = NoDialog
    /\ ops = 0
    /\ budget = n
    /\ phase = "boot"
    /\ last = Observed("import", 0, Frame)

Init == Boot(MaxOps)

Live == phase = "main"

\* The main window takes the operator's input: mainloop is running and no
\* message box holds the grab.
Idle == Live /\ modal = NoDialog

\* A handler ends: its frame becomes the program state.
Commit(name, r) ==
    /\ log' = r.log
    /\ psu_ind' = r.ind
    /\ workbook' = r.book
    /\ last' = Observed(name, Len(log), r)

\* load_config, called once before mainloop.  Only FileNotFoundError is
\* caught: any other error ends the process before the window is shown.
LoadConfig ==
    /\ phase = "boot"
    /\ \E outcome \in {"loaded", "missing", "unreadable"} :
        LET r == CASE outcome = "loaded" ->
                        log_message(Frame, MsgConfigLoaded, <<>>)
                   [] outcome = "missing" ->
                        log_message(Frame, MsgConfigMissing, <<>>)
                   [] outcome = "unreadable" ->
                        [Frame EXCEPT !.exc = "JSONDecodeError"]
        IN  /\ Commit("load_config", r)
            /\ phase' = IF Raised(r) THEN "closed" ELSE "main"
    /\ UNCHANGED <<scope, psu, is_running, pending, canvas, sim_mode_var,
                   scope_status_lbl, psu_status_lbl, buttons,
                   scope_volts_entry, scope_freq_entry, psu_volts_entry,
                   psu_curr_entry, tech_entry, nextId, psu_channel_set,
                   modal, ops, budget>>

\* connect_instruments.  A mock constructor cannot fail; a hardware
\* constructor may raise (okS, okP), which leaves the global as it was.
ConnectInstruments ==
    /\ Idle
    /\ ops < budget
    /\ ops' = ops + 1
    /\ \E okS \in BOOLEAN, okP \in BOOLEAN :
        /\ sim_mode_var => okS /\ okP
        /\ LET is_sim == sim_mode_var
               s0 == log_message(Frame,
                        IF is_sim THEN MsgConnectingSim
                                  ELSE MsgConnectingHw, <<>>)
               idP == IF okS THEN nextId + 1 ELSE nextId
               newScope == Register(scope, nextId, is_sim, okS)
               newPsu == Register(psu, idP, is_sim, okP)
               made == <<[role |-> "scope", h |-> newScope.id, op |-> "__init__",
                          args |-> <<>>, ok |-> okS],
                         [role |-> "psu", h |-> newPsu.id, op |-> "__init__",
                          args |-> <<>>, ok |-> okP]>>
               s1 == [s0 EXCEPT !.calls = made]
               any == Truthy(newScope) \/ Truthy(newPsu)
               s2 == IF any THEN log_message(s1, MsgReady, <<>>) ELSE s1
           IN  /\ Commit("connect_instruments", s2)
               /\ scope' = newScope
               /\ psu' = newPsu
               /\ nextId' = IF okP THEN idP + 1 ELSE idP
               /\ psu_channel_set' = IF okP THEN FALSE ELSE psu_channel_set
               /\ scope_status_lbl' = IF okS THEN "CONNECTED" ELSE "ERROR"
               /\ psu_status_lbl' = IF okP THEN "CONNECTED" ELSE "ERROR"
               /\ buttons' = IF any THEN "normal" ELSE buttons
               /\ is_running' = (is_running \/ any)
               /\ pending' = IF StartsLoop(any, is_running)
                             THEN pending + update_graph(TRUE) ELSE pending
               /\ canvas' = IF StartsLoop(any, is_running)
                            THEN Redrawn(canvas, update_graph(TRUE))
                            ELSE canvas
    /\ UNCHANGED <<sim_mode_var, scope_volts_entry, scope_freq_entry,
                   psu_volts_entry, psu_curr_entry, tech_entry, modal,
                   budget, phase>>

\* The event loop runs one scheduled update_graph.  on_closing destroys
\* the window together with its timers; a callback that is delivered all
\* the same finds the flag cleared.  No event is served between on_closing
\* and the return of the message box it destroyed.
Tick ==
    /\ pending > 0
    /\ modal.kind # "destroyed"
    /\ pending' = pending - 1 + update_graph(is_running)
    /\ canvas' = Redrawn(canvas, update_graph(is_running))
    /\ UNCHANGED <<scope, psu, is_running, sim_mode_var, scope_status_lbl,
                   psu_status_lbl, buttons, psu_ind, scope_volts_entry,
                   scope_freq_entry, psu_volts_entry, psu_curr_entry,
                   tech_entry, log, nextId, psu_channel_set, workbook, modal,
                   ops, budget, phase, last>>

\* A handler function runs from the current state, up to its return or to
\* the message box it opens.
Call(name, r) ==
    /\ ops < budget
    /\ ops' = ops + 1
    /\ Commit(name, r)
    /\ modal' = r.dialog
    /\ psu_channel_set' =
            (psu_channel_set
             \/ \E i \in DOMAIN r.calls :
                    r.calls[i].op = "set_channel" /\ r.calls[i].ok)
    /\ UNCHANGED <<scope, psu, is_running, pending, canvas, sim_mode_var,
                   scope_status_lbl, psu_status_lbl, buttons,
                   scope_volts_entry, scope_freq_entry, psu_volts_entry,
                   psu_curr_entry, tech_entry, nextId, budget, phase>>

\* The operator presses one of the seven control buttons.  They are created
\* disabled, and Tk runs no command of a disabled button.
Handler(name, r) ==
    /\ Idle
    /\ buttons = "normal"
    /\ Call(name, r)

RunScopeSequence ==
    \E fails \in SUBSET (ScopeOps \ {"reset"}) :
        Handler("run_scope_sequence", run_scope_sequence(Frame, fails))

SetPsuParams ==
    \E fails \in SUBSET {"set_channel"} :
        Handler("set_psu_params", set_psu_params(Frame, fails))

TogglePsu ==
    \E state \in BOOLEAN, fails \in SUBSET {"enable_output", "disable_output"} :
        Handler("toggle_psu", toggle_psu(Frame, state, fails))

RunMaster ==
    \E fails \in SUBSET ((ScopeOps \ {"reset"}) \cup {"set_channel", "enable_output"}) :
        Handler("run_master", run_master(Frame, fails))

EmergencyStop ==
    \E fails \in SUBSET {"reset", "disable_output"} :
        Handler("emergency_stop", emergency_stop(Frame, fails))

UpdateExcelLog ==
    \E loadOk \in BOOLEAN, saveOk \in BOOLEAN :
        Handler("update_excel_log", update_excel_log(Frame, loadOk, saveOk))

\* The operator edits a form field or the check box.
Edit ==
    /\ Idle
    /\ ops < budget
    /\ \/ \E t \in ScopeVoltsTexts :
            /\ scope_volts_entry' = t
            /\ UNCHANGED <<scope_freq_entry, psu_volts_entry, psu_curr_entry,
                           sim_mode_var, tech_entry>>
       \/ \E t \in ScopeFreqTexts :
            /\ scope_freq_entry' = t
            /\ UNCHANGED <<scope_volts_entry, psu_volts_entry, psu_curr_entry,
                           sim_mode_var, tech_entry>>
       \/ \E t \in PsuVoltsTexts :
            /\ psu_volts_entry' = t
            /\ UNCHANGED <<scope_volts_entry, scope_freq_entry, psu_curr_entry,
                           sim_mode_var, tech_entry>>
       \/ \E t \in PsuCurrTexts :
            /\ psu_curr_entry' = t
            /\ UNCHANGED <<scope_volts_entry, scope_freq_entry, psu_volts_entry,
                           sim_mode_var, tech_entry>>
       \/ \E t \in TechTexts :
            /\ tech_entry' = t
            /\ UNCHANGED <<scope_volts_entry, scope_freq_entry, psu_volts_entry,
                           psu_curr_entry, sim_mode_var>>
       \/ /\ sim_mode_var' = ~sim_mode_var
          /\ UNCHANGED <<scope_volts_entry, scope_freq_entry, psu_volts_entry,
                         psu_curr_entry, tech_entry>>
    /\ last' = Observed("edit", Len(log), Frame)
    /\ UNCHANGED <<scope, psu, is_running, pending, canvas, scope_status_lbl,
                   psu_status_lbl, buttons, psu_ind, log, nextId,
                   psu_channel_set, workbook, modal, ops, budget, phase>>

\* The operator dismisses the message box: showinfo / showerror returns
\* and update_excel_log with it.
CloseBox ==
    /\ modal.kind \in {"info", "error"}
    /\ modal' = NoDialog
    /\ last' = [last EXCEPT !.ret = "None"]
    /\ UNCHANGED <<scope, psu, is_running, pending, canvas, sim_mode_var,
                   scope_status_lbl, psu_status_lbl, buttons, psu_ind,
                   scope_volts_entry, scope_freq_entry, psu_volts_entry,
                   psu_curr_entry, tech_entry, log, nextId, psu_channel_set,
                   workbook, ops, budget, phase>>

\* on_closing: the flag is cleared and the window destroyed, and an open
\* message box with it.  Where the message box is Tk's own dialog (X11),
\* WM_DELETE_WINDOW is also served by the event loop the box runs; a native
\* box (Windows, macOS) keeps the window from being closed, and this step
\* is then taken with no box open only.
OnClosing ==
    /\ Live
    /\ is_running' = FALSE
    /\ phase' = "closed"
    /\ modal' = IF modal = NoDialog THEN NoDialog ELSE Destroyed(modal.kind)
    /\ last' = Observed("on_closing", Len(log), Frame)
    /\ UNCHANGED <<scope, psu, pending, canvas, sim_mode_var,
                   scope_status_lbl, psu_status_lbl, buttons, psu_ind,
                   scope_volts_entry,
                   scope_freq_entry, psu_volts_entry, psu_curr_entry,
                   tech_entry, log,
                   nextId, psu_channel_set, workbook, ops, budget>>

\* on_closing has returned into the message box it destroyed:
\* update_excel_log goes on, to the error box it opens on a temporary root
\* or out of the handler.
BoxDestroyed ==
    /\ modal.kind = "destroyed"
    /\ LET r == update_excel_log_resumed(Frame, modal.text)
       IN  /\ modal' = r.dialog
           /\ last' = Observed("update_excel_log", Len(log), r)
    /\ UNCHANGED <<scope, psu, is_running, pending, canvas, sim_mode_var,
                   scope_status_lbl, psu_status_lbl, buttons, psu_ind,
                   scope_volts_entry, scope_freq_entry, psu_volts_entry,
                   psu_curr_entry, tech_entry, log, nextId, psu_channel_set,
                   workbook, ops, budget, phase>>

Next ==
    \/ LoadConfig
    \/ ConnectInstruments
    \/ Tick
    \/ RunScopeSequence
    \/ SetPsuParams
    \/ TogglePsu
    \/ RunMaster
    \/ EmergencyStop
    \/ UpdateExcelLog
    \/ CloseBox
    \/ BoxDestroyed
    \/ Edit
    \/ OnClosing

Spec == Init /\ [][Next]_vars

(***************************************************************************)
(* Longer sessions, MaxRuns handler runs, of an operator who keeps at most *)
(* one text field away from its default.                                   *)
(***************************************************************************)
OffDefault ==
    Cardinality({f \in {"sv", "sf", "pv", "pc", "te"} :
        \/ f = "sv" /\ scope_volts_entry # DefaultScopeVolts
        \/ f = "sf" /\ scope_freq_entry # DefaultScopeFreq
        \/ f = "pv" /\ psu_volts_entry # DefaultPsuVolts
        \/ f = "pc" /\ psu_curr_entry # DefaultPsuCurr
        \/ f = "te" /\ tech_entry # <<>>})

InitRerun == Boot(MaxRuns)

\* An edit of that operator.
EditOne == Edit /\ OffDefault' <= 1

NextRerun ==
    \/ LoadConfig
    \/ ConnectInstruments
    \/ Tick
    \/ RunScopeSequence
    \/ SetPsuParams
    \/ TogglePsu
    \/ RunMaster
    \/ EmergencyStop
    \/ UpdateExcelLog
    \/ CloseBox
    \/ BoxDestroyed
    \/ EditOne
    \/ OnClosing

SpecRerun == InitRerun /\ [][NextRerun]_vars

(***************************************************************************)
(* emergency_stop called as a function, the way a test of gui.py calls it, *)
(* whatever the state of its button: this reaches the call with no handle  *)
(* registered, which the window cannot make (the button is enabled by the  *)
(* first connect that registers a handle, and no handle is ever removed).  *)
(***************************************************************************)
EmergencyStopCall ==
    /\ Idle
    /\ \E fails \in SUBSET {"reset", "disable_output"} :
            Call("emergency_stop", emergency_stop(Frame, fails))

NextDirect ==
    \/ LoadConfig
    \/ ConnectInstruments
    \/ Tick
    \/ EmergencyStopCall
    \/ Edit
    \/ OnClosing

SpecDirect == Init /\ [][NextDirect]_vars

(***************************************************************************)
(* Properties.  In a state where last.op names a handler, the form fields  *)
(* are the ones that handler read: no handler writes a field, and an edit  *)
(* becomes the most recent event itself.                                   *)
(***************************************************************************)
\* The log entries the most recent handler appended, and their texts.
Gained == SubSeq(log, last.start + 1, Len(log))
GainedMsgs == [i \in DOMAIN Gained |-> Gained[i].msg]

\* The driver operations the most recent handler invoked.
Called(op) == \E i \in DOMAIN last.calls : last.calls[i].op = op
CalledOn(role) == \E i \in DOMAIN last.calls : last.calls[i].role = role
AllCallsOk == \A i \in DOMAIN last.calls : last.calls[i].ok

ScopeVolts == ParseFloat(scope_volts_entry)
ScopeFreq == ParseFloat(scope_freq_entry)
PsuVolts == ParseFloat(psu_volts_entry)
PsuCurr == ParseFloat(psu_curr_entry)

IsNumber(v) == v.kind # "err"
Over(v, n) == IsNumber(v) /\ FloatGT(v, n)
Exactly(v, n) == v.kind = "fin" /\ FloatCmp(v, n) = 0

\* C1: no handler ever invokes set_source_amplitude with a value above
\* 20 V or set_channel with a voltage above 32 V, and when a field holds a
\* value above its limit the step's handler sends no command of that step
\* to the handle.
C1_LimitsBeforeCommands ==
    /\ \A i \in DOMAIN last.calls :
        /\ last.calls[i].op = "set_source_amplitude"
            => ~FloatGT(last.calls[i].args[1], SCOPE_LIMIT)
        /\ last.calls[i].op = "set_channel"
            => ~FloatGT(last.calls[i].args[1], PSU_LIMIT)
    /\ last.op \in {"run_scope_sequence", "run_master"}
       /\ Over(ScopeVolts, SCOPE_LIMIT)
        => ~CalledOn("scope")
    /\ last.op \in {"set_psu_params", "run_master"} /\ Over(PsuVolts, PSU_LIMIT)
        => ~Called("set_channel")

\* The scope Set button was pressed with a connected oscilloscope and an
\* amplitude above the limit, and the interlock logged its rejection.
C1_Witness ==
    /\ last.op = "run_scope_sequence"
    /\ Truthy(scope)
    /\ Over(ScopeVolts, SCOPE_LIMIT)
    /\ GainedMsgs = <<MsgScopeRejected>>

\* C2: with the step's other field numeric, an amplitude of exactly 20 is
\* sent to the oscilloscope and one above 20 is rejected (nothing sent,
\* the rejection logged); a PSU voltage of exactly 32 is sent and one
\* above 32 is rejected.
C2_InclusiveLimits ==
    /\ last.op \in {"run_scope_sequence", "run_master"} /\ Truthy(scope)
       /\ IsNumber(ScopeFreq)
        => /\ Exactly(ScopeVolts, SCOPE_LIMIT)
                => /\ last.calls # <<>>
                   /\ last.calls[1].op = "set_source_amplitude"
                   /\ last.calls[1].args = <<ScopeVolts>>
           /\ Over(ScopeVolts, SCOPE_LIMIT)
                => /\ ~CalledOn("scope")
                   /\ \E i \in DOMAIN Gained : Gained[i].msg = MsgScopeRejected
    /\ last.op = "set_psu_params" /\ Truthy(psu) /\ IsNumber(PsuCurr)
        => /\ Exactly(PsuVolts, PSU_LIMIT)
                => /\ last.calls # <<>>
                   /\ last.calls[1].op = "set_channel"
                   /\ last.calls[1].args = <<PsuVolts, PsuCurr>>
           /\ Over(PsuVolts, PSU_LIMIT)
                => /\ last.calls = <<>>
                   /\ GainedMsgs = <<MsgPsuRejected>>
                   /\ last.ret = "False"

\* The scope Set button was pressed with amplitude exactly 20.0 and the
\* whole scope sequence went out.
C2_Witness ==
    /\ last.op = "run_scope_sequence"
    /\ Exactly(ScopeVolts, SCOPE_LIMIT)
    /\ Called("set_source_amplitude")
    /\ last.ret = "True"

\* C3: in a master run, an oscilloscope amplitude rejected by its limit
\* means no driver operation at all is invoked and the log gains the start
\* banner, the rejection and the abort banner; a PSU voltage above its
\* limit means neither set_channel nor enable_output is invoked and the
\* run ends with the abort banner, the rejection being logged whenever the
\* oscilloscope step had succeeded.
C3_RejectionShortCircuits ==
    last.op = "run_master" =>
        /\ Truthy(scope) /\ IsNumber(ScopeFreq) /\ Over(ScopeVolts, SCOPE_LIMIT)
            => /\ last.calls = <<>>
               /\ GainedMsgs = <<MsgMasterStart, MsgScopeRejected,
                                 MsgMasterAborted>>
        /\ Truthy(psu) /\ Over(PsuVolts, PSU_LIMIT)
            => /\ ~Called("set_channel")
               /\ ~Called("enable_output")
               /\ GainedMsgs[Len(GainedMsgs)] = MsgMasterAborted
               /\ IsNumber(PsuCurr) /\ Called("enable_source") /\ AllCallsOk
                    => GainedMsgs = <<MsgMasterStart, MsgScopeSet,
                                      MsgPsuRejected, MsgMasterAborted>>

\* A master run whose oscilloscope step succeeded and whose PSU voltage
\* was then rejected.
C3_Witness ==
    /\ last.op = "run_master"
    /\ Called("enable_source")
    /\ \E i \in DOMAIN Gained : Gained[i].msg = MsgPsuRejected

\* C4: a master run started while the oscilloscope or the power supply has
\* no handle invokes no driver operation and logs nothing but its banners.
C4_NoPartialExecution ==
    last.op = "run_master" /\ (~Truthy(scope) \/ ~Truthy(psu))
        => /\ last.calls = <<>>
           /\ \A i \in DOMAIN Gained :
                Gained[i].msg \in {MsgMasterStart, MsgMasterAborted}

\* C5: in a run, a driver operation that fails is the last one invoked,
\* and no operation is invoked twice.
C5_FailureStopsRun ==
    last.op \in {"run_master", "run_scope_sequence", "set_psu_params",
                 "toggle_psu"}
        => /\ \A i \in DOMAIN last.calls :
                ~last.calls[i].ok => i = Len(last.calls)
           /\ \A i, j \in DOMAIN last.calls :
                i # j => <<last.calls[i].role, last.calls[i].op>>
                         # <<last.calls[j].role, last.calls[j].op>>

\* A master run in which set_channel failed after the three oscilloscope
\* operations had succeeded.
C5_Witness ==
    /\ last.op = "run_master"
    /\ Len(last.calls) > 1
    /\ last.calls[Len(last.calls)].op = "set_channel"
    /\ ~last.calls[Len(last.calls)].ok

\* C6: every failed driver operation and every failed driver construction
\* is surfaced with its cause: the handler raises it, or a log entry
\* appended by the handler carries it.
C6_FailuresSurfaced ==
    \A i \in DOMAIN last.calls :
        ~last.calls[i].ok
            => \/ last.exc = DriverError(last.calls[i].op)
               \/ \E k \in DOMAIN Gained :
                    Gained[k].msg = DriverError(last.calls[i].op)

\* C7 as stated: a master run all of whose driver operations succeed
\* gains one log entry per executed driver operation, then the complete
\* banner.
C7_EntryPerStep ==
    last.op = "run_master" /\ Called("enable_output") /\ AllCallsOk
        => /\ Len(Gained) = Len(last.calls) + 1
           /\ GainedMsgs[Len(GainedMsgs)] = MsgMasterComplete

\* C8: emergency_stop resets the oscilloscope when one is registered and
\* disables the PSU output when one is registered, whichever command
\* fails, and lets no exception out.
C8_BestEffortStop ==
    last.op = "emergency_stop"
        => /\ Truthy(scope) => Called("reset")
           /\ Truthy(psu) => Called("disable_output")
           /\ last.ret # "raise"

\* C9: an emergency_stop run with no handle registered appends exactly the
\* emergency-stop entry, invokes no driver operation, raises nothing and
\* changes nothing else, however often it is repeated.
C9_IdleEmergencyStop ==
    [][ (ops' = ops + 1 /\ last'.op = "emergency_stop"
         /\ ~Truthy(scope) /\ ~Truthy(psu))
        => /\ log' = Append(log, [msg |-> MsgEmergencyStop, args |-> <<>>])
           /\ last'.calls = <<>>
           /\ last'.ret = "None"
           /\ UNCHANGED <<scope, psu, is_running, pending, canvas, sim_mode_var,
                          scope_status_lbl, psu_status_lbl, buttons, psu_ind,
                          scope_volts_entry, scope_freq_entry,
                          psu_volts_entry, psu_curr_entry, tech_entry,
                          nextId, psu_channel_set, workbook, modal, phase>>
      ]_vars

\* emergency_stop ran twice in a row with nothing connected.
C9_Witness ==
    /\ last.op = "emergency_stop"
    /\ ~Truthy(scope) /\ ~Truthy(psu)
    /\ Len(log) > 1
    /\ log[Len(log) - 1].msg = MsgEmergencyStop
    /\ log[Len(log)].msg = MsgEmergencyStop

\* C10: when a numeric field of a step does not hold a finite number, the
\* step's handler invokes no driver operation, returns False and raises
\* nothing.
C10_NonFiniteRejected ==
    /\ last.op = "run_scope_sequence" /\ Truthy(scope)
       /\ (ScopeVolts.kind # "fin" \/ ScopeFreq.kind # "fin")
        => last.calls = <<>> /\ last.ret = "False"
    /\ last.op = "set_psu_params" /\ Truthy(psu)
       /\ (PsuVolts.kind # "fin" \/ PsuCurr.kind # "fin")
        => last.calls = <<>> /\ last.ret = "False"

\* A step in which the handler called name ran.
Ran(name) == ops' = ops + 1 /\ last'.op = name

IsPrefix(a, b) == Len(a) <= Len(b) /\ SubSeq(b, 1, Len(a)) = a

\* C11: every step of the program (config load, connect, set, master
\* sequence, emergency stop, export, edit, tick, close) leaves the log it
\* found as a prefix of the log it leaves, so the log at any state is a
\* prefix of the log at every later state.
C11_AppendOnly == [][IsPrefix(log, log')]_vars

\* An export ran on a log of at least three entries, written by the
\* config load and a connect.
C11_Witness ==
    /\ last.op = "update_excel_log"
    /\ Len(log) >= 3
    /\ log[2].msg \in {MsgConnectingSim, MsgConnectingHw}

\* C12: an export that writes no row opens the error box with the cause
\* and leaves the log, the handles, the form fields and the workbook file
\* as they were; an export that writes a row opens the success box; and
\* no step taken while a box is open (a tick, the dismissal that lets
\* update_excel_log return None, the closing of the window and what
\* update_excel_log does after it) changes the log, the handles, the fields
\* or the file.
C12_ExportFailureKeepsState ==
    [][ /\ Ran("update_excel_log") =>
          /\ workbook' = workbook
                => /\ last'.dialog \in
                        {ShowError(MsgSaveFailed \o "load_workbook"),
                         ShowError(MsgSaveFailed \o "save")}
                   /\ modal' = last'.dialog
                   /\ UNCHANGED <<log, scope, psu, scope_volts_entry,
                                  scope_freq_entry, psu_volts_entry,
                                  psu_curr_entry, tech_entry, sim_mode_var,
                                  psu_ind>>
          /\ workbook' # workbook => last'.dialog = ShowInfo(MsgLogSaved)
        /\ (modal.kind \in {"info", "error"} /\ modal' = NoDialog) =>
          /\ last'.op = "update_excel_log" /\ last'.ret = "None"
        /\ modal # NoDialog =>
          UNCHANGED <<log, scope, psu, scope_volts_entry,
                      scope_freq_entry, psu_volts_entry, psu_curr_entry,
                      tech_entry, sim_mode_var, psu_ind, workbook>>
      ]_vars

\* An export failed with an oscilloscope registered and the connect's
\* entries in the log, and its error box has been dismissed.
C12_Witness ==
    /\ last.op = "update_excel_log"
    /\ last.dialog.kind = "error"
    /\ last.ret = "None"
    /\ Truthy(scope)
    /\ Len(log) >= 2

\* C13: a successful export leaves a workbook made of the rows it found
\* (the header row alone when there was no file), unchanged and in order,
\* followed by one row holding the technician's name, the four fields and
\* the log.
C13_ExportAppendsOneRow ==
    [][ Ran("update_excel_log") /\ last'.dialog.kind = "info" =>
          /\ workbook'.exists
          /\ workbook'.rows =
                Append(IF workbook.exists THEN workbook.rows ELSE <<Header>>,
                       <<Timestamp, tech_entry, scope_volts_entry,
                         scope_freq_entry, psu_volts_entry, psu_curr_entry,
                         log>>)
      ]_vars

\* A second successful export: the workbook holds the header and two
\* session rows, the second one with the name typed before it.
C13_Witness ==
    /\ last.op = "update_excel_log"
    /\ last.dialog.kind = "info"
    /\ Len(workbook.rows) = 3
    /\ workbook.rows[2][2] = <<>>
    /\ workbook.rows[3][2] = <<"A", "l">>

\* C14: on_closing leaves the running flag cleared, and from then on the
\* flag stays cleared and no step, a tick that still runs included, redraws
\* the canvas or schedules a tick.
C14_TickStopsAtShutdown ==
    [][ /\ last'.op = "on_closing" => ~is_running'
        /\ phase = "closed"
            => ~is_running' /\ canvas' = canvas /\ pending' <= pending
      ]_vars

\* The window was closed while a tick was scheduled, and that tick has
\* run since.
C14_Witness ==
    /\ last.op = "on_closing"
    /\ canvas # "waiting"
    /\ ~is_running
    /\ pending = 0

\* C15: in a connect, a role whose constructor raises keeps the handle it
\* had (none, or the one registered before), and a role whose constructor
\* returns gets a new handle of the selected mode whatever happened to the
\* other role.
C15_NoHalfInitializedHandle ==
    [][ Ran("connect_instruments") =>
          /\ ~last'.calls[1].ok => scope' = scope
          /\ ~last'.calls[2].ok => psu' = psu
          /\ last'.calls[1].ok
                => /\ Truthy(scope') /\ scope'.id >= nextId
                   /\ scope'.sim = sim_mode_var
          /\ last'.calls[2].ok
                => /\ Truthy(psu') /\ psu'.id >= nextId
                   /\ psu'.sim = sim_mode_var
                   /\ psu'.id # scope'.id
      ]_vars

\* A reconnect in which the oscilloscope was constructed and the power
\* supply was not: the power-supply handle of the first connect remains.
C15_Witness ==
    /\ last.op = "connect_instruments"
    /\ last.calls[1].ok /\ ~last.calls[2].ok
    /\ Truthy(scope) /\ Truthy(psu)
    /\ psu.id < scope.id

\* C16: in every run enable_source is invoked only directly after a
\* successful set_source_amplitude, with the amplitude of the form and not
\* above 20, and a successful set_source_frequency on the same handle; in
\* a master run enable_output is invoked only as the fifth operation,
\* after those three and set_channel have succeeded.
C16_StrictOrder ==
    /\ \A i \in DOMAIN last.calls :
        last.calls[i].op = "enable_source" =>
            /\ i = 3
            /\ last.calls[1].op = "set_source_amplitude" /\ last.calls[1].ok
            /\ last.calls[1].args = <<ScopeVolts>>
            /\ ~FloatGT(ScopeVolts, SCOPE_LIMIT)
            /\ last.calls[2].op = "set_source_frequency" /\ last.calls[2].ok
            /\ last.calls[2].args = <<ScopeFreq>>
            /\ last.calls[1].h = last.calls[3].h
            /\ last.calls[2].h = last.calls[3].h
    /\ last.op = "run_master" =>
        \A i \in DOMAIN last.calls :
            last.calls[i].op = "enable_output" =>
                /\ i = 5
                /\ [k \in 1..4 |-> last.calls[k].op]
                        = <<"set_source_amplitude", "set_source_frequency",
                            "enable_source", "set_channel">>
                /\ \A k \in 1..4 : last.calls[k].ok
                /\ last.calls[4].h = last.calls[5].h

\* A master run that got as far as enable_output, which then failed.
C16_Witness ==
    /\ last.op = "run_master"
    /\ Len(last.calls) = 5
    /\ last.calls[5].op = "enable_output"
    /\ ~last.calls[5].ok

\* The same handles and form fields with no history: an empty log, the
\* indicator gray, no workbook.
Pristine == [Frame EXCEPT !.log = <<>>, !.ind = "gray", !.book = NoFile]

\* The driver operations that failed in the most recent run.
LastFails ==
    {last.calls[i].op : i \in {j \in DOMAIN last.calls : ~last.calls[j].ok}}

\* The most recent run did what run r does.
SameRun(r) ==
    /\ r.calls = last.calls
    /\ (IF Raised(r) THEN "raise" ELSE r.ret) = last.ret
    /\ r.exc = last.exc
    /\ r.log = Gained

\* C17: whatever ran before, a run invokes the driver operations, returns
\* the value and logs the entries that the same run invokes, returns and
\* logs when started with the same handles, form fields and driver
\* outcomes and no history at all; so a master run with both handles
\* registered, accepted values and no driver failure completes, also after
\* rejected, failed or aborted runs.
C17_NoCrossRunState ==
    /\ last.op = "run_scope_sequence"
        => SameRun(run_scope_sequence(Pristine, LastFails))
    /\ last.op = "set_psu_params"
        => SameRun(set_psu_params(Pristine, LastFails))
    /\ last.op = "toggle_psu"
        => \E state \in BOOLEAN : SameRun(toggle_psu(Pristine, state, LastFails))
    /\ last.op = "run_master"
        => /\ SameRun(run_master(Pristine, LastFails))
           /\ (/\ Truthy(scope) /\ Truthy(psu) /\ AllCallsOk
               /\ IsNumber(ScopeVolts) /\ IsNumber(ScopeFreq)
               /\ IsNumber(PsuVolts) /\ IsNumber(PsuCurr)
               /\ ~Over(ScopeVolts, SCOPE_LIMIT)
               /\ ~Over(PsuVolts, PSU_LIMIT))
                => GainedMsgs[Len(GainedMsgs)] = MsgMasterComplete

\* A master run completed after an earlier run of the session had been
\* rejected by an interlock.
C17_Witness ==
    /\ last.op = "run_master"
    /\ GainedMsgs[Len(GainedMsgs)] = MsgMasterComplete
    /\ \E i \in 1..last.start :
            log[i].msg \in {MsgScopeRejected, MsgPsuRejected}

\* C18: at most one update_graph callback is scheduled at any time.
C18_OneTickPending == pending <= 1

\* Connect was pressed a second time while the redraw loop was running.
C18_Witness ==
    /\ last.op = "connect_instruments"
    /\ is_running
    /\ pending = 1
    /\ \E i \in 1..(last.start) :
            log[i].msg \in {MsgConnectingSim, MsgConnectingHw}

\* C19: a role's status label reads CONNECTED exactly when a handle is
\* registered for the role, and a run invokes a driver operation of a role
\* only while that role's label reads CONNECTED.
C19_StatusMatchesHandle ==
    /\ scope_status_lbl = "CONNECTED" <=> Truthy(scope)
    /\ psu_status_lbl = "CONNECTED" <=> Truthy(psu)
    /\ last.op # "connect_instruments" /\ CalledOn("scope")
        => scope_status_lbl = "CONNECTED"
    /\ last.op # "connect_instruments" /\ CalledOn("psu")
        => psu_status_lbl = "CONNECTED"

\* C20: a run invokes enable_output only on a power-supply handle on which
\* a set_channel has succeeded, in that run or an earlier one.
C20_EnableAfterSetChannel ==
    Called("enable_output") => psu_channel_set

====
